---- MODULE Spec2Model ----
(***************************************************************************)
(* Shorts Worker V1: the /process-video pipeline of src/main.py and the    *)
(* four services it drives (downloader, intelligence, editor, uploader).   *)
(* One Job is one call of process_video.  The external collaborators       *)
(* (yt-dlp, the inference service, ffprobe/ffmpeg, the storage service,    *)
(* the local file system) are inputs: every outcome they can produce is    *)
(* drawn with \E.                                                          *)
(***************************************************************************)
EXTENDS Integers, Sequences, FiniteSets, TLC

\* ------------------------------------------------------------------ bounds

\* Timestamps the inference service may answer with, as seconds 0..MaxTime.
MaxTime == 2

\* The poll counter saturates here (the loop itself is not bounded).
MaxPolls == 2

\* Probed sizes: every width x height in 1..MaxDim, plus the real sizes below.
MaxDim == 4

\* ------------------------------------------------------------------ values

\* The requests. Init starts one of them; the other one is absent.
Jobs == {"j1", "j2"}

\* A file name that leaves the unique id out.
PathWithoutId(dir, id) == [dir |-> dir, id |-> 0]

Path(dir, id) == [dir |-> dir, id |-> id]

\* Python's None, for a path variable.
NoPath == Path("None", 0)

Stages == {"Fetch", "Analyze", "Transcode", "Publish"}

\* The fields of VideoSegment.
SchemaFields ==
    {"start_time", "end_time", "virality_score", "reasoning", "suggested_title"}

Times == 0 .. MaxTime

RealDims == {<<1920, 1080>>, <<1080, 1920>>, <<1280, 720>>, <<1080, 1080>>}

ProbeDims == ((1 .. MaxDim) \X (1 .. MaxDim)) \cup RealDims

\* Titles are tuples, so that a title always says where it came from.
FetcherTitle(j) == <<"yt_title", j>>

SuggestedTitle(j) == <<"ai_title", j>>

Reasoning(j) == <<"ai_reasoning", j>>

\* json.loads(response.text): the fields present and their values.
NoData ==
    [present |-> {}, start_time |-> 0, end_time |-> 0,
     suggested_title |-> <<>>, reasoning |-> <<>>, crop_focus |-> "none"]

\* A focus hint in the answer, a key that VideoSegment does not have: "none"
\* is an answer without it.
FocusHints == {"none", "left", "center", "right"}

\* The fields of an answer: the full schema, or the schema less one field.
FieldSets == {SchemaFields} \cup {SchemaFields \ {f} : f \in SchemaFields}

SegmentAnswer(j, fs, s, e, h) ==
    [present |-> fs, start_time |-> s, end_time |-> e,
     suggested_title |-> SuggestedTitle(j), reasoning |-> Reasoning(j),
     crop_focus |-> h]

\* The inference answers: every set of fields without a focus hint, and the
\* full schema with every focus hint.
AIAnswers(j) ==
    {SegmentAnswer(j, fs, s, e, "none") :
        fs \in FieldSets, s \in Times, e \in Times}
        \cup {SegmentAnswer(j, SchemaFields, s, e, h) :
                 s \in Times, e \in Times, h \in FocusHints}

\* The ffmpeg command line: -ss, -to and the -vf crop filter, if any.
NoCrop == [on |-> FALSE, w |-> 0, h |-> 0, x |-> 0, y |-> 0]

NoLocals ==
    [downloaded_file |-> NoPath, processed_file |-> NoPath,
     video_title |-> <<>>, ai_data |-> NoData,
     start_time |-> 0, end_time |-> 0, viral_title |-> <<>>]

NoBody ==
    [original_video |-> <<>>, generated_short_title |-> <<>>,
     drive_link |-> <<>>, start |-> 0, end |-> 0, reasoning |-> <<>>]

NoDetail == [tag |-> "", msg |-> ""]

\* ------------------------------------------------------------------ state

VARIABLES
    pc,         \* per Job: where process_video stands
    locals,     \* per Job: the local variables of process_video
    response,   \* per Job: the responses sent to the caller, in order
    tasks,      \* per Job: the background tasks added and not yet run
    calls,      \* per Job: stage calls and collaborator calls, in order
    results,    \* per Job: what each stage call gave back, in order
    polls,      \* per Job: genai.get_file calls of the poll loop (saturating)
    genai,      \* per Job: the remote copy held by the inference service
    cmds,       \* per Job: the ffmpeg commands run
    disk,       \* the paths present in local storage
    created,    \* per Job: the paths its Fetcher and Transcoder wrote
    removed,    \* the paths os.remove deleted, in order
    attempts,   \* per Job: the paths os.remove was called on, in order
    cleanups,   \* per Job: the cleanup_files lists that were run, in order
    drive,      \* the objects of the storage service
    uuids       \* the uuid4 values handed out so far

vars ==
    <<pc, locals, response, tasks, calls, results, polls, genai, cmds, disk,
      created, removed, attempts, cleanups, drive, uuids>>

\* ------------------------------------------------------------- stage results

\* What a stage call gives back: a dict with status "success" or "error", or
\* (status "raised") an exception that leaves the call.
StageResult(status, message) ==
    [status |-> status, message |-> message, file_path |-> NoPath,
     title |-> <<>>, data |-> NoData, drive_link |-> <<>>]

StageError(message) == StageResult("error", message)

StageRaised(message) == StageResult("raised", message)

StageSuccess == StageResult("success", "")

\* result.get("status") == "error"
StageFailed(result) == result.status = "error"

\* uuid.uuid4(): a value never handed out before.
Uuid4 == Cardinality(uuids) + 1

Log(j, entries) == calls' = [calls EXCEPT ![j] = @ \o entries]

Returned(j, stage, result) ==
    results' = [results EXCEPT ![j] = Append(@, [stage |-> stage, result |-> result])]

\* ------------------------------------------------------------- two requests

\* Both requests are in flight (the specification of concurrent Jobs).
TwoJobs == \A j \in Jobs : pc[j] # "absent"

\* With two Jobs in flight the answers of the collaborators are drawn from
\* smaller sets, which keep every kind of outcome of every stage.
Drawn(full, narrow) == IF TwoJobs THEN narrow ELSE full

\* ------------------------------------------------------------- orchestrator

\* One request has arrived (line 50); nothing has been constructed yet.
Init ==
    /\ pc = [j \in Jobs |-> IF j = "j1" THEN "init" ELSE "absent"]
    /\ locals = [j \in Jobs |-> NoLocals]
    /\ response = [j \in Jobs |-> <<>>]
    /\ tasks = [j \in Jobs |-> <<>>]
    /\ calls = [j \in Jobs |-> <<>>]
    /\ results = [j \in Jobs |-> <<>>]
    /\ polls = [j \in Jobs |-> 0]
    /\ genai = [j \in Jobs |-> "absent"]
    /\ cmds = [j \in Jobs |-> <<>>]
    /\ disk = {}
    /\ created = [j \in Jobs |-> {}]
    /\ removed = <<>>
    /\ attempts = [j \in Jobs |-> <<>>]
    /\ cleanups = [j \in Jobs |-> <<>>]
    /\ drive = {}
    /\ uuids = {}

\* raise HTTPException(status_code=500, detail=...)
HTTPException(tag, msg) ==
    [status |-> "error", detail |-> [tag |-> tag, msg |-> msg], body |-> NoBody]

\* The list handed to cleanup_files.
CleanupArgs(l) == <<l.downloaded_file, l.processed_file>>

\* A finally block that schedules nothing.
FinallySkipped(j) == UNCHANGED tasks

\* finally: background_tasks.add_task(cleanup_files, [...])
Finally(j) == tasks' = [tasks EXCEPT ![j] = Append(@, CleanupArgs(locals'[j]))]

\* An except block that logs the failure and raises nothing.
PipelineFailSwallowed(j, tag, msg) ==
    /\ UNCHANGED response
    /\ Finally(j)
    /\ pc' = [pc EXCEPT ![j] = "responded"]

\* except Exception as e: raise HTTPException(detail=str(e)); then finally.
PipelineFail(j, tag, msg) ==
    /\ response' = [response EXCEPT ![j] = Append(@, HTTPException(tag, msg))]
    /\ Finally(j)
    /\ pc' = [pc EXCEPT ![j] = "responded"]

\* What the orchestrator does with a stage's result that is no success:
\* a returned error is raised with the stage's tag, an exception that left
\* the stage is caught as it is.
StageAbort(j, tag, result) ==
    IF StageFailed(result)
    THEN PipelineFail(j, tag, result.message)
    ELSE PipelineFail(j, "", result.message)

\* A status check that lets every result through.
ProceedsAlways(result) == TRUE

\* The stage returned and its status is not "error": the handler goes on.
Proceeds(result) == result.status = "success"

\* The environment's configuration, as the constructors see it.
Configs ==
    [api_key : BOOLEAN, oauth : BOOLEAN, auth_raises : BOOLEAN]

\* The first constructor that raises, in the order of construction; "" if none.
InitError(cfg) ==
    IF ~cfg.api_key THEN "API Key is required for AIProcessor"
    ELSE IF ~cfg.oauth THEN "Missing Google OAuth credentials"
    ELSE IF cfg.auth_raises THEN "Authentication failed"
    ELSE ""

\* An initialization failure raises before the try/finally is entered.
InitFail(j, msg) ==
    /\ response' =
         [response EXCEPT ![j] = Append(@, HTTPException("Service Start Failed", msg))]
    /\ pc' = [pc EXCEPT ![j] = "responded"]
    /\ UNCHANGED tasks

InitServices(j) ==
    /\ pc[j] = "init"
    /\ \E cfg \in Configs :
         IF InitError(cfg) # ""
         THEN InitFail(j, InitError(cfg))
         ELSE /\ pc' = [pc EXCEPT ![j] = "fetch"]
              /\ UNCHANGED <<response, tasks>>
    /\ UNCHANGED <<locals, calls, results, polls, genai, cmds, disk, created,
                   removed, attempts, cleanups, drive, uuids>>

\* ------------------------------------------------------------------ Fetcher

FetchOutcomes == {"ok", "restricted", "postprocess_error"}

\* VideoDownloader.download_video: yt-dlp either writes the file and answers,
\* or fails before writing (restricted, removed, network), or fails after
\* the download wrote its file (post-processing).
download_video(j, out, file) ==
    IF out = "ok"
    THEN [StageSuccess EXCEPT !.file_path = file, !.title = FetcherTitle(j)]
    ELSE StageError(out)

Fetch(j) ==
    /\ pc[j] = "fetch"
    /\ \E out \in FetchOutcomes :
         LET file == Path("downloads", Uuid4)
             dl_result == download_video(j, out, file)
             wrote == IF out = "restricted" THEN {} ELSE {file}
         IN  /\ uuids' = uuids \cup {Uuid4}
             /\ disk' = disk \cup wrote
             /\ created' = [created EXCEPT ![j] = @ \cup wrote]
             /\ Log(j, <<"Fetch", "yt_dlp.download">>)
             /\ Returned(j, "Fetch", dl_result)
             /\ IF Proceeds(dl_result)
                THEN /\ locals' = [locals EXCEPT
                                     ![j].downloaded_file = dl_result.file_path,
                                     ![j].video_title = dl_result.title]
                     /\ pc' = [pc EXCEPT ![j] = "analyze"]
                     /\ UNCHANGED <<response, tasks>>
                ELSE /\ locals' = locals
                     /\ StageAbort(j, "Download failed", dl_result)
    /\ UNCHANGED <<polls, genai, cmds, removed, attempts, cleanups, drive>>

\* ----------------------------------------------------------------- Analyzer

\* The states the inference service reports for an uploaded file.
FileStates == {"PROCESSING", "ACTIVE", "FAILED"}

\* get_timestamps, the finally block: the remote copy is deleted only if
\* video_file was assigned, and an exception of delete_file replaces the
\* value being returned.
get_timestamps_exit(result, video_file, delete_ok) ==
    IF video_file /\ ~delete_ok THEN StageRaised("delete_file failed") ELSE result

\* The orchestrator after get_timestamps returned: the status check, then
\* ai_data["start_time"], ai_data["end_time"], ai_data.get("suggested_title").
AfterAnalyze(j, ai_result) ==
    /\ Returned(j, "Analyze", ai_result)
    /\ IF ~Proceeds(ai_result)
       THEN /\ locals' = locals
            /\ StageAbort(j, "AI Analysis failed", ai_result)
       ELSE LET ai_data == ai_result.data IN
            IF "start_time" \notin ai_data.present
            THEN /\ locals' = locals
                 /\ PipelineFail(j, "", "KeyError: start_time")
            ELSE IF "end_time" \notin ai_data.present
            THEN /\ locals' = locals
                 /\ PipelineFail(j, "", "KeyError: end_time")
            ELSE /\ locals' = [locals EXCEPT
                                 ![j].ai_data = ai_data,
                                 ![j].start_time = ai_data.start_time,
                                 ![j].end_time = ai_data.end_time,
                                 ![j].viral_title =
                                     IF "suggested_title" \in ai_data.present
                                     THEN ai_data.suggested_title
                                     ELSE locals[j].video_title]
                 /\ pc' = [pc EXCEPT ![j] = "transcode"]
                 /\ UNCHANGED <<response, tasks>>

\* get_timestamps enters upload_file: genai.upload_file either raises (no
\* remote copy) or creates the remote copy in some state.
AnalyzeUpload(j) ==
    /\ pc[j] = "analyze"
    /\ Log(j, <<"Analyze", "genai.upload_file">>)
    /\ \/ /\ AfterAnalyze(j, get_timestamps_exit(StageError("upload failed"), FALSE, TRUE))
          /\ UNCHANGED genai
       \/ \E st \in FileStates :
            /\ genai' = [genai EXCEPT ![j] = st]
            /\ pc' = [pc EXCEPT ![j] = "polling"]
            /\ UNCHANGED <<locals, response, tasks, results>>
    /\ UNCHANGED <<polls, cmds, disk, created, removed, attempts, cleanups,
                   drive, uuids>>

\* A poll loop that gives up after MaxPolls turns.
AnalyzePollBounded(j) ==
    /\ pc[j] = "polling"
    /\ genai[j] = "PROCESSING"
    /\ polls[j] < MaxPolls
    /\ polls' = [polls EXCEPT ![j] = @ + 1]
    /\ Log(j, <<"genai.get_file">>)
    /\ \/ /\ AfterAnalyze(j, get_timestamps_exit(StageError("get_file failed"), FALSE, TRUE))
          /\ UNCHANGED genai
       \/ \E st \in FileStates :
            /\ genai' = [genai EXCEPT ![j] = st]
            /\ UNCHANGED <<pc, locals, response, tasks, results>>
    /\ UNCHANGED <<cmds, disk, created, removed, attempts, cleanups, drive, uuids>>

\* One turn of the loop: while video_file.state.name == "PROCESSING".
AnalyzePoll(j) ==
    /\ pc[j] = "polling"
    /\ genai[j] = "PROCESSING"
    /\ polls' = [polls EXCEPT ![j] = IF @ < MaxPolls THEN @ + 1 ELSE @]
    /\ IF polls[j] < MaxPolls
       THEN Log(j, <<"genai.get_file">>)
       ELSE UNCHANGED calls
    /\ \/ /\ AfterAnalyze(j, get_timestamps_exit(StageError("get_file failed"), FALSE, TRUE))
          /\ UNCHANGED genai
       \/ \E st \in Drawn(FileStates, FileStates \ {"PROCESSING"}) :
            /\ genai' = [genai EXCEPT ![j] = st]
            /\ UNCHANGED <<pc, locals, response, tasks, results>>
    /\ UNCHANGED <<cmds, disk, created, removed, attempts, cleanups, drive, uuids>>

\* model.generate_content and json.loads: the request fails, the text is no
\* JSON, or the answer parses.
generate_content(answer) ==
    IF answer.kind = "request_error" THEN StageError("generate_content failed")
    ELSE IF answer.kind = "malformed" THEN StageError("JSONDecodeError")
    ELSE [StageSuccess EXCEPT !.data = answer.data]

\* What the inference request can come back with.
AIResponses(j) ==
    {[kind |-> k, data |-> NoData] : k \in {"request_error", "malformed"}}
        \cup {[kind |-> "json", data |-> d] : d \in AIAnswers(j)}

\* The answers drawn when two Jobs are in flight: a failed request, or the
\* full schema with one of two time ranges and the focus hint "left".
FewAIResponses(j) ==
    {r \in AIResponses(j) :
        \/ r.kind = "request_error"
        \/ /\ r.kind = "json"
           /\ r.data.present = SchemaFields
           /\ r.data.end_time = r.data.start_time + 1
           /\ r.data.crop_focus = "left"}

\* The analysis without the check for a file the service failed to process.
AnalyzeFinishUnchecked(j) ==
    /\ pc[j] = "polling"
    /\ genai[j] # "PROCESSING"
    /\ \E answer \in Drawn(AIResponses(j), FewAIResponses(j)), delete_ok \in BOOLEAN :
         /\ Log(j, <<"genai.generate_content", "genai.delete_file">>)
         /\ genai' = [genai EXCEPT ![j] = IF delete_ok THEN "deleted" ELSE @]
         /\ AfterAnalyze(j, get_timestamps_exit(generate_content(answer),
                                               TRUE, delete_ok))
    /\ UNCHANGED <<polls, cmds, disk, created, removed, attempts, cleanups,
                   drive, uuids>>

\* The loop has ended: FAILED raises inside upload_file; otherwise the file
\* is returned, the inference request is made and the finally deletes the
\* remote copy.
AnalyzeFinish(j) ==
    /\ pc[j] = "polling"
    /\ genai[j] # "PROCESSING"
    /\ IF genai[j] = "FAILED"
       THEN /\ AfterAnalyze(j, get_timestamps_exit(
                    StageError("Video processing failed on Google servers."),
                    FALSE, TRUE))
            /\ UNCHANGED <<genai, calls>>
       ELSE \E answer \in Drawn(AIResponses(j), FewAIResponses(j)), delete_ok \in BOOLEAN :
              /\ Log(j, <<"genai.generate_content", "genai.delete_file">>)
              /\ genai' = [genai EXCEPT ![j] = IF delete_ok THEN "deleted" ELSE @]
              /\ AfterAnalyze(j, get_timestamps_exit(generate_content(answer),
                                                    TRUE, delete_ok))
    /\ UNCHANGED <<polls, cmds, disk, created, removed, attempts, cleanups,
                   drive, uuids>>

\* --------------------------------------------------------------- Transcoder

\* trunc(x) of a non-negative quotient num/den.
Trunc(num, den) == num \div den

\* A crop width without the step that makes it even.
CropWUneven(ih) == Trunc(ih * 9, 16)

\* The crop filter "crop=trunc(ih*9/16/2)*2:ih:(iw-ow)/2:0", evaluated for an
\* input of iw x ih; ffmpeg takes the integer part of the x expression.
CropW(ih) == Trunc(ih * 9, 16 * 2) * 2

CropX(iw, ow) == Trunc(iw - ow, 2)

CropFilter(iw, ih) ==
    [on |-> TRUE, w |-> CropW(ih), h |-> ih, x |-> CropX(iw, CropW(ih)), y |-> 0]

\* A test that takes a square input for a vertical one.
IsVerticalOrSquare(width, height) == height >= width

\* is_vertical = height > width
IsVertical(width, height) == height > width

\* The command built for ffmpeg: -i, -ss, -to, the crop filter if the input
\* is not vertical, and the output path.
FfmpegCmd(file_path, start_time, end_time, width, height, output_path) ==
    [input |-> file_path, ss |-> start_time, to |-> end_time,
     width |-> width, height |-> height,
     vf |-> IF IsVertical(width, height) THEN NoCrop ELSE CropFilter(width, height),
     output |-> output_path]

\* The sizes probed when two Jobs are in flight.
FewDims == {<<1920, 1080>>, <<1080, 1920>>}

\* ffprobe failing, as a size.
ProbeFailed == <<0, 0>>

\* How an ffmpeg run can end: exit 0 with the output written, exit 0 with
\* no output, non-zero exit with nothing written, non-zero exit with a
\* partial output left behind.
FfmpegOutcomes == {"ok", "no_output", "failed", "failed_partial"}

\* VideoEditor.process_video without the check that the output file exists.
editor_process_video_unchecked(probe, run, output_path) ==
    IF probe = ProbeFailed THEN StageError("ffprobe failed")
    ELSE IF run \in {"failed", "failed_partial"}
    THEN StageError("Video processing failed during encoding.")
    ELSE [StageSuccess EXCEPT !.file_path = output_path]

\* VideoEditor.process_video's return value.
editor_process_video(probe, run, output_path) ==
    IF probe = ProbeFailed THEN StageError("ffprobe failed")
    ELSE IF run \in {"failed", "failed_partial"}
    THEN StageError("Video processing failed during encoding.")
    ELSE IF run = "no_output"
    THEN StageError("FFmpeg finished but output file is missing.")
    ELSE [StageSuccess EXCEPT !.file_path = output_path]

Transcode(j) ==
    /\ pc[j] = "transcode"
    /\ \E probe \in {ProbeFailed} \cup Drawn(ProbeDims, FewDims),
          run \in Drawn(FfmpegOutcomes, {"ok", "failed_partial"}) :
         LET output_path == Path("processed", Uuid4)
             ran == probe # ProbeFailed
             wrote == IF ran /\ run \in {"ok", "failed_partial"}
                      THEN {output_path} ELSE {}
             edit_result == editor_process_video(probe, run, output_path)
         IN  /\ uuids' = uuids \cup {Uuid4}
             /\ Log(j, <<"Transcode", "ffprobe">> \o
                       (IF ran THEN <<"ffmpeg">> ELSE <<>>))
             /\ cmds' = [cmds EXCEPT ![j] =
                           IF ran
                           THEN Append(@, FfmpegCmd(locals[j].downloaded_file,
                                                    locals[j].start_time,
                                                    locals[j].end_time,
                                                    probe[1], probe[2], output_path))
                           ELSE @]
             /\ disk' = disk \cup wrote
             /\ created' = [created EXCEPT ![j] = @ \cup wrote]
             /\ Returned(j, "Transcode", edit_result)
             /\ IF Proceeds(edit_result)
                THEN /\ locals' = [locals EXCEPT
                                     ![j].processed_file = edit_result.file_path]
                     /\ pc' = [pc EXCEPT ![j] = "publish"]
                     /\ UNCHANGED <<response, tasks>>
                ELSE /\ locals' = locals
                     /\ StageAbort(j, "Editing failed", edit_result)
    /\ UNCHANGED <<polls, genai, removed, attempts, cleanups, drive>>

\* ---------------------------------------------------------------- Publisher

\* How files().create(...).execute() can end: the object is created, the
\* transfer fails, or the service refuses the credentials (the access token
\* is first refreshed by this request).
UploadOutcomes == {"ok", "transfer_error", "auth_error"}

DriveId == Cardinality(drive) + 1

\* The object files().create makes: the name is "<title> #Shorts"; no
\* permission is created for it.
DriveObject(j, id, video_title) ==
    [id |-> id, name |-> video_title \o <<"#Shorts">>, job |-> j,
     anyone_reader |-> FALSE]

\* DriveUploader.upload_file's return value; a missing file raises before
\* the try block.
uploader_upload_file(exists, out, id) ==
    IF ~exists THEN StageRaised("File to upload not found")
    ELSE IF out = "ok"
    THEN [StageSuccess EXCEPT !.drive_link = <<"webViewLink", id>>]
    ELSE StageError(out)

\* The success response of process_video.
SuccessResponse(l, drive_link) ==
    [status |-> "success", detail |-> NoDetail,
     body |-> [original_video |-> l.video_title,
               generated_short_title |-> l.viral_title,
               drive_link |-> drive_link,
               start |-> l.start_time, end |-> l.end_time,
               reasoning |-> IF "reasoning" \in l.ai_data.present
                             THEN l.ai_data.reasoning ELSE <<>>]]

\* return {...}; then finally.
PipelineSucceed(j, drive_link) ==
    /\ response' =
         [response EXCEPT ![j] = Append(@, SuccessResponse(locals[j], drive_link))]
    /\ Finally(j)
    /\ pc' = [pc EXCEPT ![j] = "responded"]

Publish(j) ==
    /\ pc[j] = "publish"
    /\ locals' = locals
    /\ \E out \in UploadOutcomes :
         LET exists == locals[j].processed_file \in disk
             created_object == exists /\ out = "ok"
             upload_result == uploader_upload_file(exists, out, DriveId)
         IN  /\ Log(j, <<"Publish">> \o
                       (IF exists THEN <<"drive.files.create">> ELSE <<>>))
             /\ drive' = IF created_object
                         THEN drive \cup
                                {DriveObject(j, DriveId, locals[j].viral_title)}
                         ELSE drive
             /\ Returned(j, "Publish", upload_result)
             /\ IF Proceeds(upload_result)
                THEN PipelineSucceed(j, upload_result.drive_link)
                ELSE StageAbort(j, "Upload failed", upload_result)
    /\ UNCHANGED <<polls, genai, cmds, disk, created, removed, attempts,
                   cleanups, uuids>>

\* ------------------------------------------------------------------ cleanup

\* cleanup_files without the try/except: the first os.remove that raises
\* ends the loop.
RECURSIVE cleanup_files_unguarded(_, _, _)
cleanup_files_unguarded(file_paths, d, failing) ==
    IF file_paths = <<>>
    THEN [disk |-> d, removed |-> <<>>, attempted |-> <<>>]
    ELSE LET path == Head(file_paths) IN
         IF path # NoPath /\ path \in d
         THEN IF path \in failing
              THEN [disk |-> d, removed |-> <<>>, attempted |-> <<path>>]
              ELSE LET r == cleanup_files_unguarded(Tail(file_paths), d \ {path},
                                                   failing)
                   IN  [r EXCEPT !.removed = <<path>> \o @,
                                 !.attempted = <<path>> \o @]
         ELSE cleanup_files_unguarded(Tail(file_paths), d, failing)

\* cleanup_files(file_paths) on local storage d, where os.remove raises for
\* the paths in failing: the storage afterwards, the paths removed and the
\* paths os.remove was called on.
RECURSIVE cleanup_files(_, _, _)
cleanup_files(file_paths, d, failing) ==
    IF file_paths = <<>>
    THEN [disk |-> d, removed |-> <<>>, attempted |-> <<>>]
    ELSE LET path == Head(file_paths) IN
         IF path # NoPath /\ path \in d
         THEN IF path \in failing
              THEN LET r == cleanup_files(Tail(file_paths), d, failing)
                   IN  [r EXCEPT !.attempted = <<path>> \o @]
              ELSE LET r == cleanup_files(Tail(file_paths), d \ {path}, failing)
                   IN  [r EXCEPT !.removed = <<path>> \o @,
                                 !.attempted = <<path>> \o @]
         ELSE cleanup_files(Tail(file_paths), d, failing)

Range(seq) == {seq[i] : i \in DOMAIN seq}

\* The framework runs a background task after the response was sent.
RunCleanup(j) ==
    /\ pc[j] = "responded"
    /\ tasks[j] # <<>>
    /\ \E failing \in SUBSET (Range(Head(tasks[j])) \cap disk) :
         LET r == cleanup_files(Head(tasks[j]), disk, failing)
         IN  /\ disk' = r.disk
             /\ removed' = removed \o r.removed
             /\ attempts' = [attempts EXCEPT ![j] = @ \o r.attempted]
    /\ cleanups' = [cleanups EXCEPT ![j] = Append(@, Head(tasks[j]))]
    /\ tasks' = [tasks EXCEPT ![j] = Tail(@)]
    /\ UNCHANGED <<pc, locals, response, calls, results, polls, genai, cmds,
                   created, drive, uuids>>

\* ------------------------------------------------------------ specification

\* A step of the request handler of Job j (the background task is not one).
HandlerStep(j) ==
    \/ InitServices(j)
    \/ Fetch(j)
    \/ AnalyzeUpload(j)
    \/ AnalyzePoll(j)
    \/ AnalyzeFinish(j)
    \/ Transcode(j)
    \/ Publish(j)

Next ==
    \E j \in Jobs :
        \/ InitServices(j)
        \/ Fetch(j)
        \/ AnalyzeUpload(j)
        \/ AnalyzePoll(j)
        \/ AnalyzeFinish(j)
        \/ Transcode(j)
        \/ Publish(j)
        \/ RunCleanup(j)

Spec == Init /\ [][Next]_vars

\* Two requests, for two different URLs, have arrived.
InitConc ==
    /\ pc = [j \in Jobs |-> "init"]
    /\ locals = [j \in Jobs |-> NoLocals]
    /\ response = [j \in Jobs |-> <<>>]
    /\ tasks = [j \in Jobs |-> <<>>]
    /\ calls = [j \in Jobs |-> <<>>]
    /\ results = [j \in Jobs |-> <<>>]
    /\ polls = [j \in Jobs |-> 0]
    /\ genai = [j \in Jobs |-> "absent"]
    /\ cmds = [j \in Jobs |-> <<>>]
    /\ disk = {}
    /\ created = [j \in Jobs |-> {}]
    /\ removed = <<>>
    /\ attempts = [j \in Jobs |-> <<>>]
    /\ cleanups = [j \in Jobs |-> <<>>]
    /\ drive = {}
    /\ uuids = {}

SpecConc == InitConc /\ [][Next]_vars

\* A step of the handler of Job j other than a turn of the poll loop: the
\* handler is sequential code, so it goes on whenever the call it is in
\* returns.
Advance(j) ==
    \/ InitServices(j)
    \/ Fetch(j)
    \/ AnalyzeUpload(j)
    \/ AnalyzeFinish(j)
    \/ Transcode(j)
    \/ Publish(j)

\* A turn of the poll loop after which the loop is over: genai.get_file
\* reports a state other than PROCESSING, or raises.
PollEnds(j) ==
    AnalyzePoll(j) /\ (genai'[j] # "PROCESSING" \/ pc'[j] # "polling")

\* Every call returns, and the inference service does not report PROCESSING
\* for ever.
SpecFair ==
    /\ Init
    /\ [][Next]_vars
    /\ \A j \in Jobs : WF_vars(Advance(j)) /\ WF_vars(PollEnds(j))

\* ------------------------------------------------------------- the Job view

IsStage(c) == c \in Stages

\* The stages invoked by Job j, in order.
StagesInvoked(j) == SelectSeq(calls[j], IsStage)

Invoked(j, c) == c \in Range(calls[j])

Terminal(j) == pc[j] = "responded"

FAILED(j) ==
    Terminal(j) /\ Len(response[j]) = 1 /\ response[j][1].status = "error"

SUCCEEDED(j) ==
    Terminal(j) /\ Len(response[j]) = 1 /\ response[j][1].status = "success"

\* Stage call i of Job j did not return success.
StageReportedFailure(j, i) == results[j][i].result.status # "success"

\* ------------------------------------------------------------------- claims

\* C1: once a stage reports failure, that stage is the last one invoked in
\* its Job, the Job is FAILED and the error carries the stage's message;
\* after a failed Fetch neither Analyze, Transcode, Publish nor an upload to
\* the inference service or to the storage service has happened.
C1_ShortCircuit ==
    \A j \in Jobs : \A i \in DOMAIN results[j] :
        StageReportedFailure(j, i) =>
            /\ i = Len(results[j])
            /\ Len(StagesInvoked(j)) = i
            /\ StagesInvoked(j)[i] = results[j][i].stage
            /\ FAILED(j)
            /\ response[j][1].detail.msg = results[j][i].result.message
            /\ results[j][i].stage = "Fetch" =>
                   Range(calls[j]) \cap
                       {"Analyze", "Transcode", "Publish", "genai.upload_file",
                        "drive.files.create"} = {}

\* A Job whose Fetch reported the URL as restricted.
C1_Witness ==
    \E j \in Jobs :
        /\ Len(results[j]) = 1
        /\ results[j][1].stage = "Fetch"
        /\ results[j][1].result = StageError("restricted")
        /\ FAILED(j)

\* C2: a request never has more than one response, has exactly one once the
\* handler has ended, and that one is either a success payload or an error;
\* a handler that has not responded can still take a step.
C2_ExactlyOneOutcome ==
    \A j \in Jobs :
        /\ Len(response[j]) <= 1
        /\ Terminal(j) <=> Len(response[j]) = 1
        /\ \A i \in DOMAIN response[j] :
             \/ /\ response[j][i].status = "success"
                /\ response[j][i].detail = NoDetail
                /\ response[j][i].body # NoBody
             \/ /\ response[j][i].status = "error"
                /\ response[j][i].detail # NoDetail
                /\ response[j][i].body = NoBody
        /\ pc[j] \notin {"responded", "absent"} => ENABLED HandlerStep(j)

\* A Job that ran all four stages and answered with the success payload.
C2_Witness ==
    \E j \in Jobs :
        /\ SUCCEEDED(j)
        /\ StagesInvoked(j) = <<"Fetch", "Analyze", "Transcode", "Publish">>

\* Every list handed to cleanup_files for Job j, run or still to run.
CleanupLists(j) == cleanups[j] \o tasks[j]

ScheduledPaths(j) ==
    UNION {Range(CleanupLists(j)[i]) : i \in DOMAIN CleanupLists(j)} \ {NoPath}

Count(seq, x) == Cardinality({i \in DOMAIN seq : seq[i] = x})

\* cleanup_files has run for Job j and nothing is left to run.
CleanupDone(j) == Terminal(j) /\ tasks[j] = <<>> /\ cleanups[j] # <<>>

\* C3: every file the Fetcher or the Transcoder of a Job wrote is among the
\* paths scheduled for deletion once the Job is terminal, is never deleted
\* twice, and has been deleted exactly once when cleanup has run.
C3_CreatedFilesDeletedOnce ==
    \A j \in Jobs :
        /\ Terminal(j) => created[j] \subseteq ScheduledPaths(j)
        /\ \A f \in created[j] : Count(removed, f) <= 1
        /\ CleanupDone(j) => \A f \in created[j] : Count(removed, f) = 1

\* C4 as stated: after cleanup_files has completed, no path of its list is
\* in local storage, a failed deletion included.
C4_NoPathLeftAfterCleanup ==
    \A j \in Jobs : \A i \in DOMAIN cleanups[j] :
        \A p \in Range(cleanups[j][i]) \ {NoPath} : p \notin disk

\* C4 as amended: after cleanup_files has completed, a path of its list is
\* still in local storage only if os.remove was called on it and raised.
C4_PathLeftOnlyIfRemoveFailed ==
    \A j \in Jobs : \A i \in DOMAIN cleanups[j] :
        \A p \in Range(cleanups[j][i]) \ {NoPath} :
            p \in disk => p \in Range(attempts[j]) /\ p \notin Range(removed)

\* Cleanup has run on a list of two files: one deletion failed, the other
\* file is gone.
C4_Witness ==
    \E j \in Jobs :
        /\ CleanupDone(j)
        /\ NoPath \notin Range(cleanups[j][1])
        /\ cleanups[j][1][1] \in disk
        /\ cleanups[j][1][2] \notin disk
        /\ Len(attempts[j]) = 2

\* The handler of Job j ended in the construction of the services.
InitFailed(j) == Terminal(j) /\ calls[j] = <<>>

CredentialFailures ==
    {"API Key is required for AIProcessor", "Missing Google OAuth credentials",
     "Authentication failed", "auth_error"}

\* C6: a failure of credentials or of authentication ends the Job with the
\* initialization error and with no stage invoked; it is never reported as
\* a failure of the upload.
C6_AuthFailureIsInitError ==
    \A j \in Jobs : \A i \in DOMAIN response[j] :
        response[j][i].detail.msg \in CredentialFailures =>
            /\ response[j][i].detail.tag = "Service Start Failed"
            /\ StagesInvoked(j) = <<>>

\* get_timestamps of Job j has returned (or was left by an exception).
AnalyzeReturned(j) ==
    \E i \in DOMAIN results[j] : results[j][i].stage = "Analyze"

\* C7: when get_timestamps has returned and the inference service was given
\* a copy of the file, the Analyzer has asked the service to delete it.
C7_RemoteCopyDeleted ==
    \A j \in Jobs :
        AnalyzeReturned(j) /\ genai[j] # "absent" =>
            Invoked(j, "genai.delete_file")

\* The answer of the inference request misses a field of the schema, or is
\* no JSON at all.
SchemaViolation(result) ==
    \/ result.status = "success" /\ result.data.present # SchemaFields
    \/ result.status = "error" /\ result.message = "JSONDecodeError"

\* C8: an answer that violates the schema ends the Job FAILED with the
\* analyze tag, with neither Transcode nor Publish invoked and with the
\* remote copy deleted.
C8_SchemaViolationIsAnalyzeError ==
    \A j \in Jobs : \A i \in DOMAIN results[j] :
        results[j][i].stage = "Analyze" /\ SchemaViolation(results[j][i].result) =>
            /\ FAILED(j)
            /\ response[j][1].detail.tag = "AI Analysis failed"
            /\ ~Invoked(j, "Transcode")
            /\ ~Invoked(j, "Publish")
            /\ genai[j] = "deleted"

\* C9: a Segment with end <= start handed to the Transcoder is answered
\* with an error without ffmpeg being run; the Job is FAILED and Publish is
\* not invoked.
C9_InvalidSegmentRejected ==
    \A j \in Jobs :
        Invoked(j, "Transcode") /\ locals[j].end_time <= locals[j].start_time =>
            /\ ~Invoked(j, "ffmpeg")
            /\ FAILED(j)
            /\ ~Invoked(j, "Publish")

\* The crop of the claim: floor(height * 9/16) rounded down to even, the
\* input height, and half the width left over.
ClaimedCropW(height) == (((height * 9) \div 16) \div 2) * 2

IsClaimedCrop(c) ==
    /\ c.vf.on
    /\ c.vf.w = ClaimedCropW(c.height)
    /\ c.vf.w % 2 = 0
    /\ c.vf.h = c.height
    /\ c.vf.x = (c.width - c.vf.w) \div 2
    /\ 2 * c.vf.x <= c.width - c.vf.w
    /\ c.width - c.vf.w <= 2 * c.vf.x + 1

Landscape(c) == c.width > c.height

\* C10 as stated: the crop of every landscape input is the claimed one, and
\* 1920x1080 gives width 608 and x-offset 656.
C10_CropMath608 ==
    \A j \in Jobs : \A i \in DOMAIN cmds[j] :
        LET c == cmds[j][i] IN
        Landscape(c) =>
            /\ IsClaimedCrop(c)
            /\ c.width = 1920 /\ c.height = 1080 => c.vf.w = 608 /\ c.vf.x = 656

\* C10 as amended: the crop of every landscape input is the claimed one, and
\* 1920x1080 gives width 606 and x-offset 657.
C10_CropMath606 ==
    \A j \in Jobs : \A i \in DOMAIN cmds[j] :
        LET c == cmds[j][i] IN
        Landscape(c) =>
            /\ IsClaimedCrop(c)
            /\ c.width = 1920 /\ c.height = 1080 => c.vf.w = 606 /\ c.vf.x = 657

\* ffmpeg was run on a 1920x1080 input with a crop filter.
C10_Witness ==
    \E j \in Jobs : \E i \in DOMAIN cmds[j] :
        cmds[j][i].width = 1920 /\ cmds[j][i].height = 1080 /\ cmds[j][i].vf.on

\* The object of the storage service a success response links to.
LinkedObjects(j) ==
    {o \in drive : \E i \in DOMAIN response[j] :
                      /\ response[j][i].status = "success"
                      /\ response[j][i].body.drive_link = <<"webViewLink", o.id>>}

\* C11: a Job that SUCCEEDED links to an object of the storage service that
\* anyone may read.
C11_PublishedObjectIsPublic ==
    \A j \in Jobs :
        SUCCEEDED(j) =>
            /\ LinkedObjects(j) # {}
            /\ \A o \in LinkedObjects(j) : o.anyone_reader

\* The local paths Job j wrote, holds in its variables or has scheduled.
OwnPaths(j) ==
    (created[j] \cup Range(CleanupArgs(locals[j])) \cup ScheduledPaths(j)) \ {NoPath}

\* What get_timestamps gave back to Job j.
AnalyzeData(j) ==
    {results[j][i].result.data :
        i \in {n \in DOMAIN results[j] : results[j][n].stage = "Analyze"}}

\* The success payload of Job j is made of the Job's own title, Segment and
\* link.
OwnPayload(j, body) ==
    /\ body.original_video = FetcherTitle(j)
    /\ body.generated_short_title \in {SuggestedTitle(j), FetcherTitle(j)}
    /\ body.reasoning \in {Reasoning(j), <<>>}
    /\ \E d \in AnalyzeData(j) :
         body.start = d.start_time /\ body.end = d.end_time
    /\ \E o \in drive :
         /\ o.job = j
         /\ body.drive_link = <<"webViewLink", o.id>>
         /\ o.name = body.generated_short_title \o <<"#Shorts">>

\* C12: of two concurrent Jobs, the local paths of one are disjoint from
\* those of the other, the cleanup of one calls os.remove on no file of the
\* other, a file of a Job leaves local storage only through that Job's own
\* cleanup, and a success payload holds only its own Job's data.
C12_JobsIndependent ==
    \A j \in Jobs : \A k \in Jobs \ {j} :
        /\ OwnPaths(j) \cap OwnPaths(k) = {}
        /\ Range(attempts[j]) \cap created[k] = {}
        /\ \A f \in created[j] : f \notin disk => f \in Range(attempts[j])
        /\ \A i \in DOMAIN response[j] :
             response[j][i].status = "success" =>
                 OwnPayload(j, response[j][i].body)

\* Both Jobs succeeded with different Segments and both cleanups have run.
C12_Witness ==
    /\ \A j \in Jobs : SUCCEEDED(j) /\ CleanupDone(j) /\ Len(removed) = 4
    /\ response["j1"][1].body.start # response["j2"][1].body.start

\* What stage st gave back to Job j.
ResultsOf(j, st) ==
    {results[j][i].result :
        i \in {n \in DOMAIN results[j] : results[j][n].stage = st}}

\* C13: a success payload exists only if all four stages returned success;
\* its original_video is the Fetcher's title, its drive_link the Publisher's
\* link, its timestamps the -ss and -to handed to the Transcoder, and its
\* generated_short_title the suggested title of the Segment, which is also
\* the name given to the Publisher.
C13_PayloadFromOwnStages ==
    \A j \in Jobs :
        SUCCEEDED(j) =>
            LET body == response[j][1].body IN
            /\ Len(results[j]) = 4
            /\ \A i \in DOMAIN results[j] : results[j][i].result.status = "success"
            /\ \A r \in ResultsOf(j, "Fetch") : body.original_video = r.title
            /\ \A r \in ResultsOf(j, "Publish") : body.drive_link = r.drive_link
            /\ Len(cmds[j]) = 1
            /\ body.start = cmds[j][1].ss /\ body.end = cmds[j][1].to
            /\ \A r \in ResultsOf(j, "Analyze") :
                 /\ "suggested_title" \in r.data.present
                 /\ body.generated_short_title = r.data.suggested_title
            /\ \E o \in drive :
                 /\ body.drive_link = <<"webViewLink", o.id>>
                 /\ o.name = body.generated_short_title \o <<"#Shorts">>

\* The state of Job j in the state machine of the orchestrator.
JobState(j) ==
    CASE pc[j] = "absent" -> "NONE"
      [] pc[j] = "init" -> "INIT"
      [] pc[j] = "fetch" -> "FETCHING"
      [] pc[j] \in {"analyze", "polling"} -> "ANALYZING"
      [] pc[j] = "transcode" -> "TRANSCODING"
      [] pc[j] = "publish" -> "PUBLISHING"
      [] OTHER -> IF SUCCEEDED(j) THEN "SUCCEEDED" ELSE "FAILED"

StageOrder == <<"Fetch", "Analyze", "Transcode", "Publish">>

Forward ==
    {<<"INIT", "FETCHING">>, <<"FETCHING", "ANALYZING">>,
     <<"ANALYZING", "TRANSCODING">>, <<"TRANSCODING", "PUBLISHING">>,
     <<"PUBLISHING", "SUCCEEDED">>}

\* The stages invoked so far are the first ones of the order, each once, and
\* every one but the last has returned success.
InOrderOnce(j) ==
    /\ Len(StagesInvoked(j)) <= Len(StageOrder)
    /\ StagesInvoked(j) = SubSeq(StageOrder, 1, Len(StagesInvoked(j)))
    /\ Len(results[j]) <= Len(StagesInvoked(j))
    /\ \A i \in DOMAIN StagesInvoked(j) :
         i < Len(StagesInvoked(j)) =>
             /\ i \in DOMAIN results[j]
             /\ results[j][i].stage = StageOrder[i]
             /\ results[j][i].result.status = "success"

\* One step of the state machine of Job j.
JobStep(j) ==
    \/ JobState(j)' = JobState(j)
    \/ <<JobState(j), JobState(j)'>> \in Forward
    \/ JobState(j) \notin {"NONE", "SUCCEEDED", "FAILED"} /\ JobState(j)' = "FAILED"

\* A terminal Job invokes nothing more and keeps its result.
TerminalStays(j) ==
    Terminal(j) =>
        /\ JobState(j)' = JobState(j)
        /\ calls'[j] = calls[j]
        /\ results'[j] = results[j]
        /\ response'[j] = response[j]

\* C14: the state of a Job moves only along INIT, FETCHING, ANALYZING,
\* TRANSCODING, PUBLISHING, SUCCEEDED or from a non-terminal state to FAILED;
\* each stage is invoked at most once, only after the stage before it has
\* returned success, and nothing leaves SUCCEEDED or FAILED.
C14_StateMachine ==
    /\ [](\A j \in Jobs : InOrderOnce(j))
    /\ [][\A j \in Jobs : JobStep(j) /\ TerminalStays(j)]_vars

\* A Job that failed in its last stage, after three stages returned success.
C14_Witness ==
    \E j \in Jobs :
        /\ FAILED(j)
        /\ StagesInvoked(j) = StageOrder
        /\ Len(results[j]) = 4
        /\ results[j][4].result.status = "error"

\* C15: every stage call gives the orchestrator a returned outcome, success
\* or status=error; no exception leaves a stage, not when the file to upload
\* is missing and not when deleting the remote inference copy fails.
C15_NoExceptionLeavesAStage ==
    \A j \in Jobs : \A i \in DOMAIN results[j] :
        results[j][i].result.status \in {"success", "error"}

\* The tag the orchestrator gives to failures of a stage.
TagOf(stage) ==
    CASE stage = "Fetch" -> "Download failed"
      [] stage = "Analyze" -> "AI Analysis failed"
      [] stage = "Transcode" -> "Editing failed"
      [] stage = "Publish" -> "Upload failed"

\* The tag of the place where Job j was when it failed.
OriginTag(j) ==
    IF StagesInvoked(j) = <<>> THEN "Service Start Failed"
    ELSE TagOf(StagesInvoked(j)[Len(StagesInvoked(j))])

\* C16: the error of a FAILED Job carries the tag of the stage where the
\* failure originated (service start, download, AI analysis, editing,
\* upload), never no tag and never the tag of another stage.
C16_ErrorTaggedWithOrigin ==
    \A j \in Jobs :
        FAILED(j) => response[j][1].detail.tag = OriginTag(j)

\* A turn of the poll loop after which the loop goes on.
StillProcessing(j) ==
    AnalyzePoll(j) /\ genai'[j] = "PROCESSING" /\ pc'[j] = "polling"

InPollLoop(j) == pc[j] = "polling" /\ genai[j] = "PROCESSING"

\* How far the handler of a Job has come.
Rank(p) ==
    CASE p = "absent" -> 0
      [] p = "init" -> 1
      [] p = "fetch" -> 2
      [] p = "analyze" -> 3
      [] p = "polling" -> 4
      [] p = "transcode" -> 5
      [] p = "publish" -> 6
      [] p = "responded" -> 7

\* What the handler of Job j has done and seen.
HandlerView(j) ==
    <<pc[j], locals[j], response[j], calls[j], results[j], polls[j], genai[j],
      cmds[j]>>

\* A step of the handler of Job j either moves it forward or is a turn of
\* the poll loop; the loop is left while the service still reports
\* PROCESSING only by get_file raising.
OnlyPollLoops(j) ==
    /\ pc'[j] # pc[j] => Rank(pc'[j]) > Rank(pc[j])
    /\ HandlerView(j)' # HandlerView(j) /\ pc'[j] = pc[j] =>
           pc[j] = "polling" /\ genai[j] = "PROCESSING"
    /\ InPollLoop(j) /\ pc'[j] # pc[j] =>
           /\ pc'[j] = "responded"
           /\ response'[j] = <<HTTPException("AI Analysis failed", "get_file failed")>>

\* C17: if every call returns and the inference service at some time reports
\* a state other than PROCESSING, every started Job reaches SUCCEEDED or
\* FAILED; the poll loop is the only loop of the handler, nothing but a
\* reported state other than PROCESSING ends it, and however many turns it
\* has made, a service that reports PROCESSING again keeps the Job in it.
C17_Termination ==
    /\ \A j \in Jobs : (pc[j] # "absent") ~> Terminal(j)
    /\ [](\A j \in Jobs :
            InPollLoop(j) => ENABLED StillProcessing(j) /\ ~ENABLED AnalyzeFinish(j))
    /\ [][\A j \in Jobs : OnlyPollLoops(j)]_vars

\* The service has reported PROCESSING on every turn the model counts, and
\* the Job is still in the loop.
C17_Witness ==
    \E j \in Jobs : InPollLoop(j) /\ polls[j] = MaxPolls

GenaiCalls ==
    {"genai.upload_file", "genai.get_file", "genai.generate_content",
     "genai.delete_file"}

IsGenaiCall(c) == c \in GenaiCalls

\* The calls of Job j to the inference service, in order.
Protocol(j) == SelectSeq(calls[j], IsGenaiCall)

\* upload, then polls, then at most one inference request (and the deletion
\* of the remote copy after it).
ProtocolInOrder(j) ==
    LET g == Protocol(j)
        n == Count(g, "genai.get_file")
    IN  g # <<>> =>
            /\ g[1] = "genai.upload_file"
            /\ \A i \in 2..(n + 1) : g[i] = "genai.get_file"
            /\ SubSeq(g, n + 2, Len(g)) \in
                   {<<>>, <<"genai.generate_content">>,
                    <<"genai.generate_content", "genai.delete_file">>}

\* The Analyze outcome of Job j is the error of a file that failed.
AnalyzeGaveProcessingError(j) ==
    /\ ResultsOf(j, "Analyze") # {}
    /\ \A r \in ResultsOf(j, "Analyze") :
         r = StageError("Video processing failed on Google servers.")

\* C18: within one analyze call the calls to the inference service are the
\* upload, then zero or more polls, then at most one inference request; the
\* request is issued only from a state where the file is reported ACTIVE,
\* never while it is PROCESSING, and a file reported FAILED gives an error
\* outcome without any inference request.
C18_AnalyzerProtocol ==
    /\ [](\A j \in Jobs :
            /\ ProtocolInOrder(j)
            /\ genai[j] = "PROCESSING" => ~Invoked(j, "genai.generate_content")
            /\ genai[j] = "FAILED" =>
                 /\ ~Invoked(j, "genai.generate_content")
                 /\ pc[j] # "polling" => AnalyzeGaveProcessingError(j))
    /\ [][\A j \in Jobs :
            Invoked(j, "genai.generate_content")' /\ ~Invoked(j, "genai.generate_content")
                => genai[j] = "ACTIVE"]_vars

\* A Job that uploaded, polled twice and then asked for the judgment.
C18_Witness ==
    \E j \in Jobs :
        Protocol(j) = <<"genai.upload_file", "genai.get_file", "genai.get_file",
                        "genai.generate_content", "genai.delete_file">>

IsPath(p) == p # NoPath

C20_FilesExistWhileInUse ==
    \A j \in Jobs :
        /\ pc[j] \in {"analyze", "polling", "transcode", "publish"} =>
               locals[j].downloaded_file \in disk
        /\ pc[j] = "publish" => locals[j].processed_file \in disk
        /\ ~Terminal(j) =>
               /\ cleanups[j] = <<>> /\ attempts[j] = <<>>
               /\ created[j] \subseteq disk
               /\ Range(removed) \cap created[j] = {}

\* Publish is about to run and both files of the Job are there.
C20_Witness ==
    \E j \in Jobs :
        /\ pc[j] = "publish"
        /\ created[j] = {locals[j].downloaded_file, locals[j].processed_file}
        /\ Cardinality(created[j]) = 2
        /\ created[j] \subseteq disk

\* C21: for every probed size, a portrait input (height > width) gives a
\* command without crop filter that only trims (-ss, -to of the Segment) and
\* re-encodes the downloaded file, and any other input, a square one
\* included, gives a command with one crop filter, 9:16 of the input height.
C21_CropUnlessPortrait ==
    \A j \in Jobs : \A i \in DOMAIN cmds[j] :
        LET c == cmds[j][i] IN
        /\ c.input = locals[j].downloaded_file
        /\ \E d \in AnalyzeData(j) : c.ss = d.start_time /\ c.to = d.end_time
        /\ c.height > c.width => c.vf = NoCrop
        /\ c.width >= c.height =>
               /\ c.vf.on
               /\ c.vf.w = ClaimedCropW(c.height)
               /\ 16 * c.vf.w <= 9 * c.height
               /\ c.vf.h = c.height
               /\ c.vf.y = 0

\* ffmpeg was run on a square input, 1080x1080, with a crop filter.
C21_Witness ==
    \E j \in Jobs : \E i \in DOMAIN cmds[j] :
        /\ cmds[j][i].width = 1080 /\ cmds[j][i].height = 1080
        /\ cmds[j][i].vf.on
        /\ cmds[j][i].vf.w = 606

\* The x-offset that a focus hint asks for.
HintedX(hint, iw, ow) ==
    CASE hint = "left" -> 0
      [] hint = "right" -> iw - ow
      [] OTHER -> (iw - ow) \div 2

\* C22: for a landscape input the x-offset of the crop is the one the focus
\* hint of the Job's Segment asks for: 0 for left, input width less crop
\* width for right, half of that for center or no hint.
C22_CropFollowsFocusHint ==
    \A j \in Jobs : \A i \in DOMAIN cmds[j] :
        LET c == cmds[j][i] IN
        Landscape(c) =>
            /\ c.vf.on
            /\ \A d \in AnalyzeData(j) :
                 c.vf.x = HintedX(d.crop_focus, c.width, c.vf.w)

====
